---------------------------- MODULE Spec2Model ----------------------------
(***************************************************************************)
(* A model of quart_session.redis_trio: the command serializer             *)
(* (serialization.py), the reply parser and the connection that drives it  *)
(* over a trio socket (connection.py), and the RedisTrio client facade     *)
(* (client.py).                                                            *)
(*                                                                         *)
(* A byte is a one-character string ("+", "\r", ...); bytes objects are    *)
(* sequences of them.  A Python value is a tagged record:                  *)
(*   [t |-> "bytes", v |-> <<...>>]   bytes                                *)
(*   [t |-> "int",   v |-> n]         int                                  *)
(*   [t |-> "bool",  v |-> b]         bool                                 *)
(*   [t |-> "none",  v |-> <<>>]      None                                 *)
(*   [t |-> "list",  v |-> <<...>>]   list of values                       *)
(***************************************************************************)
EXTENDS Integers, Sequences, FiniteSets, TLC

(***************************************************************************)
(* Bounds of the model.                                                    *)
(***************************************************************************)
\* commands one client task issues on the connection
MaxCmds == 2
\* length of the free text appended to an error line's leading token
MaxTail == 2

(***************************************************************************)
(* Python values and bytes helpers.                                        *)
(***************************************************************************)
Bytes(b) == [t |-> "bytes", v |-> b]
Integer(n) == [t |-> "int", v |-> n]
Bool(b) == [t |-> "bool", v |-> b]
None == [t |-> "none", v |-> <<>>]
List(l) == [t |-> "list", v |-> l]

Min(a, b) == IF a < b THEN a ELSE b
Max(a, b) == IF a < b THEN b ELSE a

\* Python's s[a:b] (0-based, half open, negative indices count from the end)
Clamp(i, n) == IF i < 0 THEN Max(i + n, 0) ELSE Min(i, n)
Slice(s, a, b) ==
    LET lo == Clamp(a, Len(s))
        hi == Clamp(b, Len(s))
    IN  IF hi <= lo THEN <<>> ELSE SubSeq(s, lo + 1, hi)
\* Python's s[a:]
SliceFrom(s, a) == Slice(s, a, Len(s))

\* bytes.startswith / str.startswith
startswith(s, p) == Len(s) >= Len(p) /\ SubSeq(s, 1, Len(p)) = p

CRLF == <<"\r", "\n">>

\* data.index(b"\r\n"): the 0-based offset of the first CR-LF, -1 for the
\* ValueError of a buffer that holds none
index(data) ==
    LET hits == {i \in 1..(Len(data) - 1) : data[i] = "\r" /\ data[i + 1] = "\n"}
    IN  IF hits = {} THEN -1
        ELSE (CHOOSE i \in hits : \A j \in hits : i <= j) - 1

Digits == {"0", "1", "2", "3", "4", "5", "6", "7", "8", "9"}
DigitVal(c) ==
    CASE c = "0" -> 0 [] c = "1" -> 1 [] c = "2" -> 2 [] c = "3" -> 3
      [] c = "4" -> 4 [] c = "5" -> 5 [] c = "6" -> 6 [] c = "7" -> 7
      [] c = "8" -> 8 [] c = "9" -> 9

RECURSIVE DigitsVal_rev(_)
\* a reading of the digits with the least significant one first
DigitsVal_rev(s) ==
    IF s = <<>> THEN 0
    ELSE 10 * DigitsVal_rev(Tail(s)) + DigitVal(Head(s))

RECURSIVE DigitsVal(_)
DigitsVal(s) ==
    IF s = <<>> THEN 0
    ELSE 10 * DigitsVal(SubSeq(s, 1, Len(s) - 1)) + DigitVal(s[Len(s)])

RECURSIVE lstrip(_)
lstrip(s) == IF s # <<>> /\ s[1] = " " THEN lstrip(Tail(s)) ELSE s
RECURSIVE rstrip(_)
rstrip(s) ==
    IF s # <<>> /\ s[Len(s)] = " " THEN rstrip(SubSeq(s, 1, Len(s) - 1)) ELSE s

\* Python's int(b"..."): surrounding blanks are stripped, one optional sign,
\* then at least one decimal digit; anything else is a ValueError
int(s) ==
    LET body == rstrip(lstrip(s))
        signed == body # <<>> /\ body[1] \in {"-", "+"}
        digits == IF signed THEN Tail(body) ELSE body
    IN  IF digits = <<>> \/ \E i \in 1..Len(digits) : digits[i] \notin Digits
        THEN [ok |-> FALSE, v |-> 0]
        ELSE [ok |-> TRUE,
              v |-> IF signed /\ body[1] = "-" THEN 0 - DigitsVal(digits)
                    ELSE DigitsVal(digits)]

(***************************************************************************)
(* connection.py: the reply prefixes.                                      *)
(***************************************************************************)
SP == "+"
EP == "-"
IP == ":"
BP == "$"
AP == "*"
\* a reading of the prefix set that lets one more byte through
known_prefixes_wide == {SP, EP, IP, BP, AP, "x"}

known_prefixes == {SP, EP, IP, BP, AP}

(***************************************************************************)
(* RedisConnection.parse, up to its call of parse_array.  The result is    *)
(*   [k |-> "ReadMore"]                      raise ReadMore()              *)
(*   [k |-> "raise", exc |-> e, msg |-> m]   raise e(m)                    *)
(*   [k |-> "item", item |-> v, rest |-> r]  return v, r                   *)
(*   [k |-> "array", length |-> n, rest |-> r]                             *)
(*                                  return await self.parse_array(n, r)    *)
(***************************************************************************)
ReadMore == [k |-> "ReadMore"]
Raise(e, m) == [k |-> "raise", exc |-> e, msg |-> m]
Item(v, r) == [k |-> "item", item |-> v, rest |-> r]
Array(n, r) == [k |-> "array", length |-> n, rest |-> r]

WRONGTYPE == <<"W", "R", "O", "N", "G", "T", "Y", "P", "E">>
ERR == <<"E", "R", "R">>

\* the '-' branch: classify the error line's text
parse_error(error) ==
    IF startswith(error, WRONGTYPE)
    THEN Raise("ResponseTypeError", SliceFrom(error, Len(WRONGTYPE) + 1))
    ELSE IF startswith(error, ERR)
    THEN Raise("ResponseError", SliceFrom(error, Len(ERR) + 1))
    ELSE Raise("ResponseError", error)

\* a reading of the '$' branch that leaves the payload's CR-LF in the
\* remainder
parse_bulk_keep(length, data) ==
    IF length = -1 THEN Item(None, data)
    ELSE IF Len(data) < length + 2 THEN ReadMore
    ELSE Item(Bytes(Slice(data, 0, length)), SliceFrom(data, length))

\* the '$' branch, after the length line
parse_bulk(length, data) ==
    IF length = -1 THEN Item(None, data)
    ELSE IF Len(data) < length + 2 THEN ReadMore
    ELSE Item(Bytes(Slice(data, 0, length)), SliceFrom(data, length + 2))

\* the '*' branch, after the count line
parse_count(length, data) ==
    IF length = -1 THEN Item(None, data) ELSE Array(length, data)

parse(data) ==
    LET idx == index(data)
        line == Slice(data, 1, idx)
        rest == SliceFrom(data, idx + 2)
    IN  IF idx = -1 THEN ReadMore
        ELSE IF data[1] \notin known_prefixes
        THEN Raise("ProtocolError", data)
        ELSE IF data[1] = SP THEN Item(Bytes(line), rest)
        ELSE IF data[1] = EP THEN parse_error(line)
        ELSE IF data[1] = IP
        THEN IF int(line).ok THEN Item(Integer(int(line).v), rest)
             ELSE Raise("ValueError", line)
        ELSE IF data[1] = BP
        THEN IF int(line).ok THEN parse_bulk(int(line).v, rest)
             ELSE Raise("ValueError", line)
        ELSE IF int(line).ok THEN parse_count(int(line).v, rest)
             ELSE Raise("ValueError", line)

(***************************************************************************)
(* RedisConnection.parse_array, run from one suspension to the next.  The  *)
(* activations of parse_array that are live are kept as a stack of         *)
(* [length, items], innermost last; data is the buffer of the innermost    *)
(* one (each activation hands its buffer down to parse and takes the       *)
(* remainder back).  The result is                                         *)
(*   [k |-> "recv", stack, data]     suspended in self.sock.recv           *)
(*   [k |-> "item", item, rest]      the outermost array, and what follows *)
(*   [k |-> "raise", exc, msg]       an element raised                     *)
(***************************************************************************)
Frame(n) == [length |-> n, items |-> <<>>]
Blocked(stack, data) == [k |-> "recv", stack |-> stack, data |-> data]

\* items.append(item) in the innermost activation
append(stack, item) ==
    [stack EXCEPT ![Len(stack)].items = Append(@, item)]

RECURSIVE parse_array(_, _)
parse_array(stack, data) ==
    LET top == stack[Len(stack)]
    IN  IF Len(top.items) >= top.length
        THEN \* return items, data
             IF Len(stack) = 1 THEN Item(List(top.items), data)
             ELSE parse_array(append(SubSeq(stack, 1, Len(stack) - 1),
                                     List(top.items)), data)
        ELSE IF data = <<>> THEN Blocked(stack, data)
        ELSE LET r == parse(data)
             IN  CASE r.k = "ReadMore" -> Blocked(stack, data)
                   [] r.k = "raise" -> r
                   [] r.k = "item" -> parse_array(append(stack, r.item), r.rest)
                   [] r.k = "array" ->
                        parse_array(Append(stack, Frame(r.length)), r.rest)

(***************************************************************************)
(* One parse attempt of RedisConnection.process_response: the task is      *)
(* either in the try of process_response (no activation of parse_array) or *)
(* resumes the innermost parse_array after its recv.                       *)
(***************************************************************************)
attempt(stack, data) ==
    IF stack # <<>> THEN parse_array(stack, data)
    ELSE LET r == parse(data)
         IN  CASE r.k = "ReadMore" -> Blocked(<<>>, data)
               [] r.k = "array" -> parse_array(<<Frame(r.length)>>, r.rest)
               [] OTHER -> r

(***************************************************************************)
(* serialization.py.  An argument is a tagged value; the verb is wrapped   *)
(* as [t |-> "atom"].  The NUL byte is written "NUL".                      *)
(***************************************************************************)
atom(b) == [t |-> "atom", v |-> b]
Str(s) == [t |-> "str", v |-> s]

\* a reading of the escapes table without the entry of the backslash
escapes_nobackslash(c) ==
    CASE c = "NUL" -> <<"\\", "x", "0", "0">>
      [] c = "\n" -> <<"\\", "n">>
      [] c = "\r" -> <<"\\", "r">>
      [] c = "\"" -> <<"\\", "\"">>
      [] OTHER -> <<c>>

\* a reading of the escapes table without the entry of CR
escapes_nocr(c) ==
    CASE c = "NUL" -> <<"\\", "x", "0", "0">>
      [] c = "\n" -> <<"\\", "n">>
      [] c = "\\" -> <<"\\", "\\">>
      [] c = "\"" -> <<"\\", "\"">>
      [] OTHER -> <<c>>

\* the escapes table: the replacement of a byte that has one
escapes(c) ==
    CASE c = "NUL" -> <<"\\", "x", "0", "0">>
      [] c = "\n" -> <<"\\", "n">>
      [] c = "\r" -> <<"\\", "r">>
      [] c = "\\" -> <<"\\", "\\">>
      [] c = "\"" -> <<"\\", "\"">>
      [] OTHER -> <<c>>

RECURSIVE escape(_)
escape(bs) == IF bs = <<>> THEN <<>> ELSE escapes(Head(bs)) \o escape(Tail(bs))

quote(bs) == <<"\"">> \o escape(bs) \o <<"\"">>

DigitChar(d) ==
    CASE d = 0 -> "0" [] d = 1 -> "1" [] d = 2 -> "2" [] d = 3 -> "3"
      [] d = 4 -> "4" [] d = 5 -> "5" [] d = 6 -> "6" [] d = 7 -> "7"
      [] d = 8 -> "8" [] d = 9 -> "9"

\* str(n).encode("ascii") of an int
RECURSIVE NatStr(_)
NatStr(n) == IF n < 10 THEN <<DigitChar(n)>>
             ELSE NatStr(n \div 10) \o <<DigitChar(n % 10)>>
IntStr(n) == IF n < 0 THEN <<"-">> \o NatStr(0 - n) ELSE NatStr(n)

\* text of the model is ASCII, which UTF-8 encodes byte for byte; a bool is
\* an int to isinstance, and str of it is True or False; str(None) is the
\* text None
serialize(x) ==
    CASE x.t = "atom" -> x.v
      [] x.t = "bytes" -> quote(x.v)
      [] x.t = "str" -> quote(x.v)
      [] x.t = "bool" -> IF x.v THEN <<"T", "r", "u", "e">>
                         ELSE <<"F", "a", "l", "s", "e">>
      [] x.t = "int" -> IntStr(x.v)
      [] x.t = "none" -> quote(<<"N", "o", "n", "e">>)

RECURSIVE join_rev(_)
\* a reading of join that puts the last token first
join_rev(tokens) ==
    IF Len(tokens) = 0 THEN <<>>
    ELSE IF Len(tokens) = 1 THEN tokens[1]
    ELSE join_rev(Tail(tokens)) \o <<" ">> \o tokens[1]

RECURSIVE join(_)
\* b" ".join(tokens)
join(tokens) ==
    IF Len(tokens) = 0 THEN <<>>
    ELSE IF Len(tokens) = 1 THEN tokens[1]
    ELSE tokens[1] \o <<" ">> \o join(Tail(tokens))

\* the bytes RedisConnection.send_command hands to sock.send
send_command(command, args) ==
    LET command_and_args ==
            [i \in 1..(Len(args) + 1) |->
                serialize((<<atom(command)>> \o args)[i])]
    IN  join(command_and_args) \o CRLF

(***************************************************************************)
(* The server side of the wire format: reply terms and their encoding.     *)
(***************************************************************************)
Status(s) == [t |-> "status", v |-> s]
Error(s) == [t |-> "error", v |-> s]
Int_(n) == [t |-> "int", v |-> n]
Bulk(b) == [t |-> "bulk", v |-> b]
NullBulk == [t |-> "nil", v |-> <<>>]
Multi(l) == [t |-> "array", v |-> l]
NullMulti == [t |-> "nilarray", v |-> <<>>]

RECURSIVE Encode(_)
RECURSIVE EncodeAll(_)
EncodeAll(l) == IF l = <<>> THEN <<>> ELSE Encode(Head(l)) \o EncodeAll(Tail(l))
Encode(r) ==
    CASE r.t = "status" -> <<SP>> \o r.v \o CRLF
      [] r.t = "error" -> <<EP>> \o r.v \o CRLF
      [] r.t = "int" -> <<IP>> \o IntStr(r.v) \o CRLF
      [] r.t = "bulk" -> <<BP>> \o IntStr(Len(r.v)) \o CRLF \o r.v \o CRLF
      [] r.t = "nil" -> <<BP, "-", "1">> \o CRLF
      [] r.t = "array" -> <<AP>> \o IntStr(Len(r.v)) \o CRLF \o EncodeAll(r.v)
      [] r.t = "nilarray" -> <<AP, "-", "1">> \o CRLF

OK == <<"O", "K">>

\* replies that decode to a value
ValueReplies ==
    { Status(OK), Status(<<"N", "O">>), Int_(1), NullBulk, Bulk(OK),
      Multi(<<Bulk(<<"a">>), Int_(1)>>), Multi(<<Multi(<<Int_(1)>>)>>) }
\* replies that raise a response error, at top level or inside an array
ErrorReplies ==
    { Error(ERR \o <<" ", "x">>), Multi(<<Error(<<"E">>), Int_(1)>>) }

ValueFrames == {Encode(r) : r \in ValueReplies}
Frames == ValueFrames \cup {Encode(r) : r \in ErrorReplies}
\* what a store answers to GET, SETEX and DEL
HandlerFrames == {Encode(r) : r \in {Status(OK), Bulk(<<"a">>), Int_(1)}}

\* the proper, non-empty prefixes of a frame
Prefixes(F) == {SubSeq(F, 1, n) : n \in 1..(Len(F) - 1)}

(***************************************************************************)
(* The state: one RedisTrio client (one RedisConnection, one socket), the  *)
(* tasks that call it, and the server at the other end of the socket.      *)
(***************************************************************************)
Tasks == {1, 2}
Passwords == {<<>>, <<"p">>}
Keys == {Str(<<"k">>)}
Values == {Str(<<"v">>)}
\* the seconds handed to setex: a lifetime, a negative int, no int at all
Seconds == {Integer(5), Integer(-1), None}
\* RedisConnection.__init__'s bufsize
bufsize == 16384

VARIABLES
    sock,       \* conn.sock: "unconnected", "connected" or "closed"
    password,   \* RedisTrio.password
    entered,    \* the client is inside "async with RedisTrio() as redis"
    sockOut,    \* the writes the server has not answered: [no, data]
    wire,       \* the bytes the server has sent and no recv has returned
    wireNo,     \* for each byte of wire, the command it answers
    peerClosed, \* the server has closed the stream
    ncmds,      \* commands written to the socket so far
    srvFrames,  \* the frames the server answers with
    handlers,   \* the tasks that use the client
    pin,        \* a buffer handed to parse on its own
    pout,       \* what parse made of pin
    sin,        \* a value handed to serialize, or a command to send_command
    sout,       \* the bytes serialize or send_command made of sin
    config,     \* app.config (its SESSION_ keys), app.secret_key being set,
                \*   and the async library of the app
    iface,      \* app.session_interface
    store,      \* the backend of the session interface: key -> value
    request,    \* the request being served: [cookie, remote_addr, xff]
    session,    \* the session open_session returned
    response,   \* the response: [file, cookie]
    backendOps, \* the calls made on the backend while serving the request
    phase,      \* "config", "request", "app", "saved" or "failed"; "off"
                \*   where no application is running
    raised,     \* the exception that ended open_session or save_session
    waiter,     \* the task suspended in trio's wait_readable, or 0
    pc,         \* per task: "idle", "recv" (suspended in sock.recv),
                \*   "parse" (recv returned), "done" (the call has ended)
    op,         \* per task: the coroutine of the client that awaits the
                \*   reply ("process_command", "process_command_ok",
                \*   "connect", "aenter", "close"), or the method that ended
                \*   before any await
    data,       \* per task: the local buffer of process_response/parse_array
    stack,      \* per task: the live activations of parse_array
    result,     \* per task: what the call returned or raised
    cmdno,      \* per task: the number of the command it wrote
    rx,         \* per task: the bytes its process_response has received
    foreign,    \* per task: it received bytes answering another command
    eof,        \* per task: a recv of its process_response returned b""
    sentFrame,  \* per task: the frame the server sent, or began to send,
                \*   for its command
    dropped     \* per task: the remainder process_response threw away

netvars == <<sockOut, wire, wireNo, peerClosed, ncmds>>
\* what no step of a client task or of the server changes
sessvars ==
    <<config, iface, store, request, session, response, backendOps, phase,
      raised>>
cfgvars == <<password, srvFrames, handlers, pin, pout, sin, sout, sessvars>>
taskvars == <<pc, op, data, stack, result>>
histvars == <<cmdno, rx, foreign, eof, sentFrame, dropped>>
vars == <<sock, entered, waiter, netvars, cfgvars, taskvars, histvars>>

NoResult == [k |-> "none", v |-> None, exc |-> "", msg |-> <<>>]
Returned(v) == [k |-> "return", v |-> v, exc |-> "", msg |-> <<>>]
Raised(e, m) == [k |-> "raise", v |-> None, exc |-> e, msg |-> m]
Self == [t |-> "self", v |-> <<>>]

NotParsed == [k |-> "none"]
NoInput == [k |-> "none"]

NoConfig == [k |-> "none"]
NoInterface == [k |-> "none"]
NoRequest == [k |-> "none"]
NoSession == [k |-> "none"]
NoResponse == [k |-> "none"]
\* no application, no session interface
SessionsOff ==
    /\ config = NoConfig /\ iface = NoInterface
    /\ store = <<>>
    /\ request = NoRequest /\ session = NoSession /\ response = NoResponse
    /\ backendOps = <<>>
    /\ phase = "off" /\ raised = ""

InitCommon ==
    /\ entered = FALSE
    /\ waiter = 0
    /\ sockOut = <<>> /\ wire = <<>> /\ wireNo = <<>>
    /\ peerClosed = FALSE /\ ncmds = 0
    /\ pc = [t \in Tasks |-> "idle"]
    /\ op = [t \in Tasks |-> ""]
    /\ data = [t \in Tasks |-> <<>>]
    /\ stack = [t \in Tasks |-> <<>>]
    /\ result = [t \in Tasks |-> NoResult]
    /\ cmdno = [t \in Tasks |-> 0]
    /\ rx = [t \in Tasks |-> <<>>]
    /\ foreign = [t \in Tasks |-> FALSE]
    /\ eof = [t \in Tasks |-> FALSE]
    /\ sentFrame = [t \in Tasks |-> <<>>]
    /\ dropped = [t \in Tasks |-> <<>>]

\* RedisTrio.__init__: one task owns a client that is not yet connected
Init ==
    /\ InitCommon
    /\ sock = "unconnected"
    /\ password \in Passwords
    /\ srvFrames = Frames
    /\ handlers = {1}
    /\ pin = <<>> /\ pout = NotParsed
    /\ sin = NoInput /\ sout = NotParsed
    /\ SessionsOff

(***************************************************************************)
(* Calls.                                                                  *)
(***************************************************************************)
\* the call ends before it suspends, raising exc
Fail(t, name, exc) ==
    /\ pc' = [pc EXCEPT ![t] = "done"]
    /\ op' = [op EXCEPT ![t] = name]
    /\ result' = [result EXCEPT ![t] = Raised(exc, <<>>)]
    /\ UNCHANGED <<sock, entered, waiter, netvars, cfgvars, data, stack,
                   histvars>>

\* await self.sock.send(data), then the call suspends in process_response
Write(t, name, line) ==
    /\ ncmds < MaxCmds
    /\ sockOut' = Append(sockOut, [no |-> ncmds + 1, data |-> line])
    /\ ncmds' = ncmds + 1
    /\ cmdno' = [cmdno EXCEPT ![t] = ncmds + 1]
    /\ pc' = [pc EXCEPT ![t] = "recv"]
    /\ op' = [op EXCEPT ![t] = name]
    /\ UNCHANGED <<waiter, wire, wireNo, peerClosed, cfgvars, data, stack,
                   result, rx, foreign, eof, sentFrame, dropped>>

\* process_command / process_command_ok up to the first recv: the send
\* fails on a socket that is not connected, and may fail once the peer has
\* closed
Command(t, name, verb, args) ==
    /\ pc[t] = "idle"
    /\ \/ /\ sock = "connected"
          /\ Write(t, name, send_command(verb, args))
          /\ UNCHANGED <<sock, entered>>
       \/ /\ sock = "connected" /\ peerClosed
          /\ Fail(t, name, "BrokenPipeError")
       \/ /\ sock = "unconnected"
          /\ Fail(t, name, "OSError")
       \/ /\ sock = "closed"
          /\ Fail(t, name, "ClosedResourceError")

AUTH == <<"A", "U", "T", "H">>
DEL == <<"D", "E", "L">>
ECHO == <<"E", "C", "H", "O">>
FLUSHALL == <<"F", "L", "U", "S", "H", "A", "L", "L">>
GET == <<"G", "E", "T">>
QUIT == <<"Q", "U", "I", "T">>
SET == <<"S", "E", "T">>
SETEX == <<"S", "E", "T", "E", "X">>

\* RedisTrio.connect and __aenter__ (which returns await self.connect())
Connect(t, name) ==
    /\ pc[t] = "idle"
    /\ \/ /\ sock = "unconnected"
          /\ Fail(t, name, "ConnectionRefusedError")
       \/ /\ sock = "unconnected"
          /\ sock' = "connected"
          /\ IF password # <<>>
             THEN /\ Write(t, name, send_command(AUTH, <<Bytes(password)>>))
                  /\ UNCHANGED entered
             ELSE /\ pc' = [pc EXCEPT ![t] = "done"]
                  /\ op' = [op EXCEPT ![t] = name]
                  /\ result' = [result EXCEPT ![t] = Returned(Self)]
                  /\ entered' = (entered \/ name = "aenter")
                  /\ UNCHANGED <<waiter, netvars, cfgvars, data, stack,
                                 histvars>>
       \/ /\ sock = "connected"
          /\ Fail(t, name, "OSError")
       \/ /\ sock = "closed"
          /\ Fail(t, name, "ClosedResourceError")

connect(t) == Connect(t, "connect")
aenter(t) == Connect(t, "aenter")

\* a reading of RedisConnection.close that refuses a socket already closed
conn_close_once(t) ==
    /\ pc[t] = "idle"
    /\ IF sock = "closed"
       THEN Fail(t, "conn_close", "ClosedResourceError")
       ELSE /\ sock' = "closed"
            /\ pc' = [pc EXCEPT ![t] = "done"]
            /\ op' = [op EXCEPT ![t] = "conn_close"]
            /\ result' = [result EXCEPT ![t] = Returned(None)]
            /\ UNCHANGED <<entered, waiter, netvars, cfgvars, data, stack,
                           histvars>>

\* RedisConnection.close: self.sock.close(), which on a trio socket that is
\* not connected, or closed already, does nothing and raises nothing
conn_close(t) ==
    /\ pc[t] = "idle"
    /\ sock' = "closed"
    /\ pc' = [pc EXCEPT ![t] = "done"]
    /\ op' = [op EXCEPT ![t] = "conn_close"]
    /\ result' = [result EXCEPT ![t] = Returned(None)]
    /\ UNCHANGED <<entered, waiter, netvars, cfgvars, data, stack, histvars>>

\* RedisTrio.close: await self.quit(), then self.conn.close()
close(t) == Command(t, "close", QUIT, <<>>)

auth(t) == \E pw \in Passwords \ {<<>>} :
    Command(t, "process_command_ok", AUTH, <<Bytes(pw)>>)
delete(t) == \E key \in Keys : Command(t, "process_command", DEL, <<key>>)
echo(t) == \E message \in Values :
    Command(t, "process_command", ECHO, <<message>>)
flushall(t) == Command(t, "process_command_ok", FLUSHALL, <<>>)
get(t) == \E key \in Keys : Command(t, "process_command", GET, <<key>>)
quit(t) == Command(t, "process_command", QUIT, <<>>)
set(t) == \E key \in Keys, value \in Values :
    Command(t, "process_command_ok", SET, <<key, value>>)

\* isinstance(seconds, int)
isinstance_int(seconds) == seconds.t = "int"

setex(t) == \E key \in Keys, value \in Values, seconds \in Seconds :
    IF ~isinstance_int(seconds)
    THEN pc[t] = "idle" /\ Fail(t, "setex", "TypeError")
    ELSE Command(t, "process_command_ok", SETEX, <<key, seconds, value>>)

\* RedisTrio.__aexit__: self.close() builds a coroutine that nobody awaits,
\* so neither QUIT nor conn.close() runs; returning None lets the body's
\* exception, if any, propagate
aexit(t) == \E exc \in BOOLEAN :
    /\ pc[t] = "idle" /\ entered
    /\ entered' = FALSE
    /\ pc' = [pc EXCEPT ![t] = "done"]
    /\ op' = [op EXCEPT ![t] = "aexit"]
    /\ result' = [result EXCEPT ![t] =
            IF exc THEN Raised("Exception", <<>>) ELSE Returned(None)]
    /\ UNCHANGED <<sock, waiter, netvars, cfgvars, data, stack, histvars>>

(***************************************************************************)
(* RedisConnection.process_response, one suspension at a time.             *)
(***************************************************************************)
\* a reading that keeps only the latest chunk, data = await self.sock.recv(...)
\* in place of data += ...
recv_replace(buf, chunk) == chunk

\* data = await self.sock.recv(...) and data += await self.sock.recv(...)
recv_into(buf, chunk) == buf \o chunk

\* a recv returns: at least one byte, whatever part of the stream has
\* arrived, or no byte once the peer has closed and the stream is drained;
\* the task may have been suspended in wait_readable or not
SockRecv(t) ==
    /\ pc[t] = "recv"
    /\ waiter' = IF waiter = t THEN 0 ELSE waiter
    /\ \E n \in 0..Min(Len(wire), bufsize) :
          /\ n = 0 => (wire = <<>> /\ peerClosed)
          /\ data' = [data EXCEPT ![t] = recv_into(@, SubSeq(wire, 1, n))]
          /\ rx' = [rx EXCEPT ![t] = @ \o SubSeq(wire, 1, n)]
          /\ foreign' = [foreign EXCEPT ![t] =
                @ \/ \E i \in 1..n : wireNo[i] # cmdno[t]]
          /\ eof' = [eof EXCEPT ![t] = @ \/ n = 0]
          /\ wire' = SubSeq(wire, n + 1, Len(wire))
          /\ wireNo' = SubSeq(wireNo, n + 1, Len(wireNo))
    /\ pc' = [pc EXCEPT ![t] = "parse"]
    /\ UNCHANGED <<sock, entered, sockOut, peerClosed, ncmds, cfgvars,
                   op, stack, result, cmdno, sentFrame, dropped>>

\* what the client method makes of process_response's outcome
finish(name, r) ==
    IF r.k = "raise" THEN Raised(r.exc, r.msg)
    ELSE IF name = "process_command_ok"
    THEN Returned(Bool(r.item = Bytes(OK)))
    ELSE IF name \in {"connect", "aenter"} THEN Returned(Self)
    ELSE IF name = "close" THEN Returned(None)
    ELSE Returned(r.item)

\* the parse attempt after a recv: suspend in the next recv, or leave
\* process_response (item, _ = ...; return item) and run the rest of the
\* client method, which has no further suspension
Parse(t) ==
    /\ pc[t] = "parse"
    /\ LET r == attempt(stack[t], data[t])
       IN  IF r.k = "recv"
           THEN /\ pc' = [pc EXCEPT ![t] = "recv"]
                /\ stack' = [stack EXCEPT ![t] = r.stack]
                /\ data' = [data EXCEPT ![t] = r.data]
                /\ UNCHANGED <<sock, entered, result, dropped>>
           ELSE /\ pc' = [pc EXCEPT ![t] = "done"]
                /\ stack' = [stack EXCEPT ![t] = <<>>]
                /\ data' = [data EXCEPT ![t] = <<>>]
                /\ result' = [result EXCEPT ![t] = finish(op[t], r)]
                /\ dropped' = [dropped EXCEPT ![t] =
                        IF r.k = "item" THEN r.rest ELSE <<>>]
                /\ sock' = IF op[t] = "close" /\ r.k = "item"
                           THEN "closed" ELSE sock
                /\ entered' = (entered \/ (op[t] = "aenter" /\ r.k = "item"))
    /\ UNCHANGED <<waiter, netvars, cfgvars, op, cmdno, rx, foreign, eof,
                   sentFrame>>

\* the caller takes the outcome; the call's locals are gone
Return(t) ==
    /\ pc[t] = "done"
    /\ pc' = [pc EXCEPT ![t] = "idle"]
    /\ op' = [op EXCEPT ![t] = ""]
    /\ result' = [result EXCEPT ![t] = NoResult]
    /\ cmdno' = [cmdno EXCEPT ![t] = 0]
    /\ rx' = [rx EXCEPT ![t] = <<>>]
    /\ foreign' = [foreign EXCEPT ![t] = FALSE]
    /\ eof' = [eof EXCEPT ![t] = FALSE]
    /\ sentFrame' = [sentFrame EXCEPT ![t] = <<>>]
    /\ dropped' = [dropped EXCEPT ![t] = <<>>]
    /\ UNCHANGED <<sock, entered, waiter, netvars, cfgvars, data, stack>>

(***************************************************************************)
(* The server: it answers the commands in the order they were written, one *)
(* frame each, and may close the stream at any time, also in mid-frame.    *)
(***************************************************************************)
\* the bytes part of frame F go out in answer to the oldest command
Answer(F, part) ==
    LET cmd == Head(sockOut)
    IN  /\ sockOut' = Tail(sockOut)
        /\ wire' = wire \o part
        /\ wireNo' = wireNo \o [i \in 1..Len(part) |-> cmd.no]
        /\ sentFrame' = [t \in Tasks |->
                IF pc[t] # "idle" /\ cmdno[t] = cmd.no
                THEN F ELSE sentFrame[t]]

ServerReply ==
    /\ ~peerClosed /\ sockOut # <<>>
    /\ \E F \in srvFrames : Answer(F, F)
    /\ UNCHANGED <<sock, entered, waiter, peerClosed, ncmds, cfgvars,
                   taskvars, cmdno, rx, foreign, eof, dropped>>

ServerClose ==
    /\ ~peerClosed
    /\ peerClosed' = TRUE
    /\ \/ UNCHANGED <<sockOut, wire, wireNo, sentFrame>>
       \/ /\ sockOut # <<>>
          /\ \E F \in srvFrames : \E part \in Prefixes(F) : Answer(F, part)
    /\ UNCHANGED <<sock, entered, waiter, ncmds, cfgvars, taskvars,
                   cmdno, rx, foreign, eof, dropped>>

(***************************************************************************)
(* The client used as its documentation shows: by one task.                *)
(***************************************************************************)
Next ==
    \/ \E t \in handlers : connect(t)
    \/ \E t \in handlers : aenter(t)
    \/ \E t \in handlers : aexit(t)
    \/ \E t \in handlers : close(t)
    \/ \E t \in handlers : conn_close(t)
    \/ \E t \in handlers : auth(t)
    \/ \E t \in handlers : delete(t)
    \/ \E t \in handlers : echo(t)
    \/ \E t \in handlers : flushall(t)
    \/ \E t \in handlers : get(t)
    \/ \E t \in handlers : quit(t)
    \/ \E t \in handlers : set(t)
    \/ \E t \in handlers : setex(t)
    \/ \E t \in handlers : SockRecv(t)
    \/ \E t \in handlers : Parse(t)
    \/ \E t \in handlers : Return(t)
    \/ ServerReply
    \/ ServerClose

Spec == Init /\ [][Next]_vars

(***************************************************************************)
(* The client shared by concurrent request handlers: the session           *)
(* interface's create() connects one RedisTrio() and its get, set and      *)
(* delete call backend.get, backend.setex and backend.delete from whatever *)
(* task serves a request.  The server stays up.                            *)
(***************************************************************************)
SharedInit ==
    /\ InitCommon
    /\ sock = "connected"
    /\ password = <<>>
    /\ srvFrames = HandlerFrames
    /\ handlers = Tasks
    /\ pin = <<>> /\ pout = NotParsed
    /\ sin = NoInput /\ sout = NotParsed
    /\ SessionsOff

\* recv finds nothing to read and the task suspends in wait_readable
Block(t) ==
    /\ pc[t] = "recv" /\ wire = <<>> /\ ~peerClosed
    /\ waiter = 0
    /\ waiter' = t
    /\ UNCHANGED <<sock, entered, netvars, cfgvars, taskvars, histvars>>

\* recv finds nothing to read while another task is suspended on the same
\* socket: trio raises BusyResourceError
RecvBusy(t) ==
    /\ pc[t] = "recv" /\ wire = <<>> /\ ~peerClosed
    /\ waiter \notin {0, t}
    /\ pc' = [pc EXCEPT ![t] = "done"]
    /\ result' = [result EXCEPT ![t] = Raised("BusyResourceError", <<>>)]
    /\ stack' = [stack EXCEPT ![t] = <<>>]
    /\ data' = [data EXCEPT ![t] = <<>>]
    /\ UNCHANGED <<sock, entered, waiter, netvars, cfgvars, op, histvars>>

SharedNext ==
    \/ \E t \in handlers : get(t)
    \/ \E t \in handlers : setex(t)
    \/ \E t \in handlers : delete(t)
    \/ \E t \in handlers : SockRecv(t)
    \/ \E t \in handlers : Block(t)
    \/ \E t \in handlers : RecvBusy(t)
    \/ \E t \in handlers : Parse(t)
    \/ \E t \in handlers : Return(t)
    \/ ServerReply

SharedSpec == SharedInit /\ [][SharedNext]_vars

(***************************************************************************)
(* parse on its own: a buffer is handed to it once.  A '*' frame runs      *)
(* parse_array until it returns, raises or wants its first socket read.    *)
(***************************************************************************)
Alphabet == {" ", "x", "E"}
RECURSIVE Texts(_)
\* the texts over Alphabet of at most n bytes
Texts(n) ==
    IF n = 0 THEN {<<>>}
    ELSE Texts(n - 1) \cup
         {Append(s, c) : s \in {u \in Texts(n - 1) : Len(u) = n - 1}, c \in Alphabet}

\* error texts: a token, whole or cut or run on, and free text after it
Leads ==
    { <<>>, ERR, ERR \o <<" ">>, SubSeq(ERR, 1, 2),
      WRONGTYPE, WRONGTYPE \o <<" ">>, SubSeq(WRONGTYPE, 1, 8),
      <<"x">> \o ERR \o <<" ">> }
ErrorTexts == {lead \o tail : lead \in Leads, tail \in Texts(MaxTail)}
ParseInputs == {<<EP>> \o T \o CRLF : T \in ErrorTexts}

ParseInit ==
    /\ InitCommon
    /\ sock = "unconnected"
    /\ password = <<>>
    /\ srvFrames = {}
    /\ handlers = {}
    /\ pin \in ParseInputs
    /\ pout = NotParsed
    /\ sin = NoInput /\ sout = NotParsed
    /\ SessionsOff

DoParse ==
    /\ pout = NotParsed
    /\ pout' = attempt(<<>>, pin)
    /\ UNCHANGED <<sock, entered, waiter, netvars, password, srvFrames,
                   handlers, pin, sin, sout, sessvars, taskvars, histvars>>

ParseNext == DoParse

ParseSpec == ParseInit /\ [][ParseNext]_vars

(***************************************************************************)
(* parse on buffers of every kind: complete frames with bytes after them,  *)
(* frames cut short, unknown prefixes, length lines that are no number or  *)
(* a number below -1.                                                      *)
(***************************************************************************)
\* the deepest nesting of the arrays handed to parse
MaxDepth == 3
\* the largest length a '$' or '*' line declares on its own
MaxLength == 2

\* byte strings: empty, plain, ending in CR, holding a CR-LF
Payloads ==
    { <<>>, <<"a">>, OK, <<"a", "\r">>, CRLF, <<"a", "\r", "\n", "b">> }
HasCRLF(b) == \E i \in 1..(Len(b) - 1) : b[i] = "\r" /\ b[i + 1] = "\n"
\* the texts a status line can carry
StatusTexts == {b \in Payloads : ~HasCRLF(b)}
Numbers == {0, 7, -3, 12}

RECURSIVE Nested(_)
\* an array d levels deep
Nested(d) == IF d = 0 THEN Multi(<<>>) ELSE Multi(<<Nested(d - 1), Int_(d)>>)

Scalars ==
    {Status(b) : b \in StatusTexts} \cup {Int_(n) : n \in Numbers}
        \cup {Bulk(b) : b \in Payloads} \cup {NullBulk}
Arrays ==
    { NullMulti, Multi(<<Bulk(<<"a">>), NullBulk>>),
      Multi(<<NullMulti, Status(OK)>>) }
        \cup {Nested(d) : d \in 0..MaxDepth}
Replies == Scalars \cup Arrays

\* what may follow a frame in the buffer
Trailing == {<<>>, <<"x">>, CRLF, Encode(Int_(1))}

Complete == {Encode(r) \o T : r \in Replies, T \in Trailing}
Truncated == UNION {Prefixes(Encode(r)) : r \in Replies} \cup {<<>>}
\* status lines built from any byte string
StatusLines == {Encode(Status(b)) : b \in Payloads}

\* first bytes that are no reply prefix
Others == {"x", "\r", "O"}
UnknownPrefix ==
    {<<c>> \o b \o CRLF : c \in Others, b \in StatusTexts} \cup {CRLF}
NoCRLF ==
    {<<c>> \o b : c \in Others \cup known_prefixes,
                  b \in {<<>>, <<"a">>, <<"a", "\r">>}}

\* length lines that are no decimal number
BadLengths == {<<>>, <<"x">>, <<"1", "x">>, <<"-">>}
BadLengthInputs ==
    {<<c>> \o l \o CRLF \o rest :
        c \in {BP, AP}, l \in BadLengths, rest \in {<<>>, <<"a">> \o CRLF}}

\* '$' frames by declared length and by what follows the length line
Lengths == (-2)..MaxLength
BulkRests ==
    { <<>>, <<"a">>, CRLF, <<"a">> \o CRLF, <<"a", "b">> \o CRLF,
      CRLF \o CRLF, <<"a", "b", "c">> \o CRLF }
BulkInputs ==
    {<<BP>> \o IntStr(n) \o CRLF \o rest : n \in Lengths, rest \in BulkRests}

\* '*' frames by declared count, with that many elements after the count
Elems == {Int_(1), Bulk(<<"a">>), Multi(<<NullBulk>>)}
ElemSeqs(n) == IF n <= 0 THEN {<<>>} ELSE [1..n -> Elems]
ArrayInput(n, elems) == <<AP>> \o IntStr(n) \o CRLF \o EncodeAll(elems)
ArrayInputs ==
    {ArrayInput(n, elems) :
        n \in Lengths, elems \in UNION {ElemSeqs(m) : m \in 0..MaxLength}}

BufferInputs ==
    Complete \cup Truncated \cup StatusLines \cup UnknownPrefix \cup NoCRLF
        \cup BadLengthInputs \cup BulkInputs \cup ArrayInputs

BufferInit ==
    /\ InitCommon
    /\ sock = "unconnected"
    /\ password = <<>>
    /\ srvFrames = {}
    /\ handlers = {}
    /\ pin \in BufferInputs
    /\ pout = NotParsed
    /\ sin = NoInput /\ sout = NotParsed
    /\ SessionsOff

BufferSpec == BufferInit /\ [][ParseNext]_vars

(***************************************************************************)
(* serialize and send_command on their own: a value, or a verb with its    *)
(* arguments, is handed over once.                                         *)
(***************************************************************************)
\* the longest byte string handed to serialize
MaxLen == 2
\* the most arguments handed to send_command
MaxArgs == 3

\* a plain byte and the five bytes the escapes table names
EscAlphabet == {"a", "NUL", "\n", "\r", "\\", "\""}
RECURSIVE ByteStrings(_)
\* the byte strings over EscAlphabet of at most n bytes
ByteStrings(n) ==
    IF n = 0 THEN {<<>>}
    ELSE ByteStrings(n - 1) \cup
         {Append(b, c) : b \in {u \in ByteStrings(n - 1) : Len(u) = n - 1},
                         c \in EscAlphabet}

SerializeInts == {0, 5, -1, 42}
SerializeValues ==
    {atom(GET), atom(<<"\"", "\r">>)}
        \cup {Bytes(b) : b \in ByteStrings(MaxLen)}
        \cup {Str(b) : b \in ByteStrings(MaxLen)}
        \cup {Integer(n) : n \in SerializeInts}
        \cup {Bool(TRUE), Bool(FALSE), None}
SerializeInputs == {[k |-> "value", x |-> x] : x \in SerializeValues}

CommandArgs == {Str(<<"k">>), Bytes(<<"\"">>), Integer(5), Integer(-1)}
ArgSeqs == UNION {[1..n -> CommandArgs] : n \in 0..MaxArgs}
CommandInputs ==
    {[k |-> "command", verb |-> verb, args |-> args] :
        verb \in {GET, SETEX}, args \in ArgSeqs}

\* arguments made of the bytes that could end a token or a line
HostileArgs == {Bytes(b) : b \in ByteStrings(MaxLen)}
HostileInputs ==
    {[k |-> "command", verb |-> SET, args |-> args] :
        args \in [1..1 -> HostileArgs] \cup [1..2 -> HostileArgs]}

SerializeInit ==
    /\ InitCommon
    /\ sock = "unconnected"
    /\ password = <<>>
    /\ srvFrames = {}
    /\ handlers = {}
    /\ pin = <<>> /\ pout = NotParsed
    /\ sin \in SerializeInputs \cup CommandInputs \cup HostileInputs
    /\ sout = NotParsed
    /\ SessionsOff

\* the bytes a call produced
Sent(b) == [k |-> "bytes", v |-> b]

DoSerialize ==
    /\ sin.k = "value" /\ sout = NotParsed
    /\ sout' = Sent(serialize(sin.x))
    /\ UNCHANGED <<sock, entered, waiter, netvars, password, srvFrames,
                   handlers, pin, pout, sin, sessvars, taskvars, histvars>>

DoSendCommand ==
    /\ sin.k = "command" /\ sout = NotParsed
    /\ sout' = Sent(send_command(sin.verb, sin.args))
    /\ UNCHANGED <<sock, entered, waiter, netvars, password, srvFrames,
                   handlers, pin, pout, sin, sessvars, taskvars, histvars>>

SerializeNext == DoSerialize \/ DoSendCommand

SerializeSpec == SerializeInit /\ [][SerializeNext]_vars

(***************************************************************************)
(* quart_session/__init__.py: Session.init_app builds the session          *)
(* interface from app.config.  A dict is a function from its keys; text is *)
(* a sequence of tokens, so that a key is key_prefix \o sid.               *)
(***************************************************************************)
SessionTypes ==
    {"redis", "redis+trio", "memcached", "mongodb", "null", "filesystem"}
Libraries == {"asyncio", "trio"}
KeyPrefixes == {<<"session:">>, <<"s:">>}

\* dict.setdefault(k, v), d[k] = v and d.get(k, v)
setdefault(d, k, v) ==
    IF k \in DOMAIN d THEN d
    ELSE [x \in DOMAIN d \cup {k} |-> IF x = k THEN v ELSE d[x]]
setitem(d, k, v) == [x \in DOMAIN d \cup {k} |-> IF x = k THEN v ELSE d[x]]
getitem(d, k, v) == IF k \in DOMAIN d THEN d[k] ELSE v

\* an app.config that sets every key the session interface reads
FullConfig(type, permanent, signer, prefix, protection, proxy, static) ==
    [x \in {"SESSION_TYPE", "SESSION_PERMANENT", "SESSION_USE_SIGNER",
            "SESSION_KEY_PREFIX", "SESSION_PROTECTION",
            "SESSION_REVERSE_PROXY", "SESSION_STATIC_FILE"} |->
        CASE x = "SESSION_TYPE" -> type
          [] x = "SESSION_PERMANENT" -> permanent
          [] x = "SESSION_USE_SIGNER" -> signer
          [] x = "SESSION_KEY_PREFIX" -> prefix
          [] x = "SESSION_PROTECTION" -> protection
          [] x = "SESSION_REVERSE_PROXY" -> proxy
          [] x = "SESSION_STATIC_FILE" -> static]

\* the same without some of its keys
without(d, keys) == [x \in DOMAIN d \ keys |-> d[x]]

\* the keys of config with their defaults, lines 83-90
defaults(conf) ==
    LET c1 == setdefault(conf, "SESSION_TYPE", "null")
        c2 == setdefault(c1, "SESSION_PERMANENT", TRUE)
        c3 == setdefault(c2, "SESSION_USE_SIGNER", FALSE)
        c4 == setdefault(c3, "SESSION_KEY_PREFIX", <<"session:">>)
        c5 == setdefault(c4, "SESSION_PROTECTION", FALSE)
        c6 == setdefault(c5, "SESSION_REVERSE_PROXY", FALSE)
    IN  setdefault(c6, "SESSION_STATIC_FILE", FALSE)

\* SessionInterface.__init__ as each subclass reaches it
Interface(cls, key_prefix, use_signer, permanent, kwargs) ==
    [k |-> "interface", cls |-> cls, key_prefix |-> key_prefix,
     use_signer |-> use_signer, permanent |-> permanent, _config |-> kwargs]

\* Session._get_interface: the interface, or the exception raised.  The
\* branch of redis+trio passes premanent=..., which __init__ takes as one
\* more keyword of **kwargs, so that permanent keeps its default
_get_interface(lib, conf) ==
    LET c == defaults(conf)
        type == c["SESSION_TYPE"]
        prefix == c["SESSION_KEY_PREFIX"]
        signer == c["SESSION_USE_SIGNER"]
        permanent == c["SESSION_PERMANENT"]
    IN  CASE type = "redis" ->
                IF lib = "asyncio"
                THEN Interface("RedisSessionInterface", prefix, signer,
                               permanent, c)
                ELSE Interface("RedisTrioSessionInterface", prefix, signer,
                               permanent, c)
          [] type = "redis+trio" ->
                Interface("RedisTrioSessionInterface", prefix, signer, TRUE,
                          setitem(c, "premanent", permanent))
          [] type = "memcached" ->
                Interface("MemcachedSessionInterface", prefix, signer,
                          permanent, c)
          [] type = "mongodb" ->
                Interface("MongoDBSessionInterface", prefix, signer,
                          permanent, c)
          [] type = "null" ->
                Interface("NullSessionInterface", prefix, signer,
                          permanent, c)
          [] OTHER -> [k |-> "raise", exc |-> "NotImplementedError"]

\* the applications: every choice of the keys, and configs that leave keys
\* to their defaults
AppConfigs ==
    LET full == {FullConfig(type, permanent, signer, prefix, FALSE, FALSE,
                            FALSE) :
                    type \in SessionTypes, permanent \in BOOLEAN,
                    signer \in BOOLEAN, prefix \in KeyPrefixes}
    IN  full \cup {without(c, {"SESSION_PERMANENT", "SESSION_KEY_PREFIX"}) :
                        c \in full}
             \cup {without(c, DOMAIN c) : c \in full}
Apps ==
    {[conf |-> conf, lib |-> lib, secret_key |-> TRUE] :
        conf \in AppConfigs, lib \in Libraries}

ConfigInit ==
    /\ InitCommon
    /\ sock = "unconnected"
    /\ password = <<>>
    /\ srvFrames = {}
    /\ handlers = {}
    /\ pin = <<>> /\ pout = NotParsed
    /\ sin = NoInput /\ sout = NotParsed
    /\ config \in Apps
    /\ iface = NoInterface
    /\ store = <<>>
    /\ request = NoRequest /\ session = NoSession /\ response = NoResponse
    /\ backendOps = <<>>
    /\ phase = "config" /\ raised = ""

\* Session.init_app: app.session_interface = self._get_interface(app)
init_app ==
    /\ phase = "config"
    /\ LET r == _get_interface(config.lib, config.conf)
       IN  IF r.k = "raise"
           THEN /\ raised' = r.exc
                /\ phase' = "failed"
                /\ UNCHANGED iface
           ELSE /\ iface' = r
                /\ phase' = "request"
                /\ UNCHANGED raised
    /\ UNCHANGED <<sock, entered, waiter, netvars, password, srvFrames,
                   handlers, pin, pout, sin, sout, config, store, request,
                   session, response, backendOps, taskvars, histvars>>

ConfigNext == init_app

ConfigSpec == ConfigInit /\ [][ConfigNext]_vars

(***************************************************************************)
(* quart_session/sessions.py: the session a request opens and the response *)
(* saves.  A str is Str(tokens), a missing value is None; the dict of a    *)
(* session is a function from its keys.                                    *)
(***************************************************************************)
CookieSids == {<<"c1">>, <<"c2">>}
\* what uuid4 hands out: never a value a client sent
FreshSids == {<<"u1">>, <<"u2">>}
Addresses == {<<"10.0.0.1">>, <<"10.0.0.2">>}

EmptyDict == [x \in {} |-> None]
\* bool(v) of a str or None
truthy(v) == v.t = "str" /\ v.v # <<>>

\* a reading of the constructor without its last line: what it wrote to
\* itself stays marked
ServerSideSession_marked(initial, sid, permanent, addr) ==
    LET d1 == IF permanent THEN setitem(initial, "_permanent", Bool(TRUE))
              ELSE initial
        d2 == IF truthy(addr) THEN setitem(d1, "_addr", addr) ELSE d1
    IN  [k |-> "session", sid |-> sid, data |-> d2,
         modified |-> permanent \/ truthy(addr)]

\* ServerSideSession.__init__; permanent=None is passed as FALSE
ServerSideSession(initial, sid, permanent, addr) ==
    LET d1 == IF permanent THEN setitem(initial, "_permanent", Bool(TRUE))
              ELSE initial
        d2 == IF truthy(addr) THEN setitem(d1, "_addr", addr) ELSE d1
    IN  [k |-> "session", sid |-> sid, data |-> d2, modified |-> FALSE]

\* what open_session returns when it has no signer
NoneSession == [k |-> "None"]

\* itsdangerous.Signer with the app's secret key: value . signature
Digest(tok) ==
    CASE tok = "c1" -> "h1"
      [] tok = "c2" -> "h2"
      [] tok = "u1" -> "h3"
      [] tok = "u2" -> "h4"
      [] OTHER -> "h0"
get_signature(value) ==
    <<"mac">> \o [i \in 1..Len(value) |-> Digest(value[i])]
sign(value) == value \o <<".">> \o get_signature(value)
\* the place of the last separator, 0 without one
rindex(text, sep) ==
    LET at == {i \in 1..Len(text) : text[i] = sep}
    IN  IF at = {} THEN 0 ELSE CHOOSE i \in at : \A j \in at : j <= i
Unsigned(value) == [k |-> "return", v |-> value]
BadSignature == [k |-> "raise", v |-> <<>>]
\* a reading of unsign that does not verify the signature
unsign_any(signed) ==
    LET i == rindex(signed, ".")
    IN  IF i = 0 THEN BadSignature ELSE Unsigned(SubSeq(signed, 1, i - 1))
unsign(signed) ==
    LET i == rindex(signed, ".")
        value == SubSeq(signed, 1, i - 1)
        sig == SubSeq(signed, i + 1, Len(signed))
    IN  IF i = 0 THEN BadSignature
        ELSE IF sig = get_signature(value) THEN Unsigned(value)
        ELSE BadSignature
\* _get_signer: a Signer (TRUE) or None (FALSE)
_get_signer(app) == app.secret_key

\* the dicts a session holds
Users == {<<"alice">>, <<"bob">>}
SessionDicts ==
    UNION {[keys -> {Str(a) : a \in Addresses} \cup {Str(n) : n \in Users}
                    \cup {Bool(TRUE)}] :
            keys \in SUBSET {"_addr", "_permanent", "user"}}
WellFormed(d) ==
    /\ "_addr" \in DOMAIN d => d["_addr"] \in {Str(a) : a \in Addresses}
    /\ "_permanent" \in DOMAIN d => d["_permanent"] = Bool(TRUE)
    /\ "user" \in DOMAIN d => d["user"] \in {Str(n) : n \in Users}

\* TaggedJSONSerializer: dumps writes the members of the dict in the order
\* of their keys, loads reads back what dumps wrote and fails on the rest
Literal(v) ==
    IF v.t = "str" THEN <<"\"">> \o v.v \o <<"\"">>
    ELSE IF v.v THEN <<"true">> ELSE <<"false">>
Member(d, key) ==
    IF key \in DOMAIN d THEN <<key, ":">> \o Literal(d[key]) \o <<",">>
    ELSE <<>>
dumps(d) ==
    <<"{">> \o Member(d, "_addr") \o Member(d, "_permanent")
            \o Member(d, "user") \o <<"}">>
loads(text) ==
    LET read == {d \in SessionDicts : WellFormed(d) /\ dumps(d) = text}
    IN  IF read = {} THEN [k |-> "raise", v |-> EmptyDict]
        ELSE [k |-> "return", v |-> CHOOSE d \in read : TRUE]

\* the classes: which has a serializer, which define delete
serializer(cls) == cls # "MongoDBSessionInterface"
has_delete(cls) ==
    cls \in {"RedisSessionInterface", "RedisTrioSessionInterface",
             "MemcachedSessionInterface"}
Doc(d) == [t |-> "dict", v |-> d]
Call(name, key) == [op |-> name, key |-> key]

\* get of each interface: the stored value, or None
interface_get(cls, st, key) ==
    CASE cls = "NullSessionInterface" -> None
      [] cls = "RedisTrioSessionInterface" ->
            IF key \in DOMAIN st /\ st[key].v # <<>> THEN st[key] ELSE None
      [] OTHER -> IF key \in DOMAIN st THEN st[key] ELSE None
\* set of each interface
interface_set(cls, st, key, value) ==
    IF cls = "NullSessionInterface" THEN st ELSE setitem(st, key, value)
\* delete of the interfaces that define it
interface_delete(cls, st, key) == without(st, {key})

\* the applications that serve requests, one of each backend
ServingApps ==
    {[conf |-> FullConfig(type, permanent, signer, <<"session:">>,
                          protection, proxy, static),
      lib |-> "asyncio", secret_key |-> secret] :
        type \in SessionTypes \ {"filesystem"}, permanent \in BOOLEAN,
        signer \in BOOLEAN, protection \in BOOLEAN, proxy \in BOOLEAN,
        static \in BOOLEAN, secret \in BOOLEAN}

\* what an earlier response stored for the sid c1
Recorded ==
    setitem(setitem(setitem(EmptyDict, "_addr", Str(<<"10.0.0.1">>)),
                    "_permanent", Bool(TRUE)), "user", Str(<<"alice">>))
Unrecorded == setitem(EmptyDict, "user", Str(<<"alice">>))
StoredValues(cls) ==
    IF cls = "MongoDBSessionInterface"
    THEN {Doc(Recorded), Doc(Unrecorded), Doc(EmptyDict)}
    ELSE {Str(dumps(Recorded)), Str(dumps(Unrecorded)), Str(<<"garbage">>),
          Str(<<>>)}
Stores(self) ==
    IF self.cls = "NullSessionInterface" THEN {<<>>}
    ELSE {<<>>} \cup {setitem(<<>>, self.key_prefix \o <<"c1">>, value) :
                        value \in StoredValues(self.cls)}

\* the session cookie of a request: absent, empty, a sid, a signed sid, a
\* sid with the signature of another
Cookies ==
    {None, Str(<<>>), Str(<<"c1">>), Str(<<"c2">>), Str(sign(<<"c1">>)),
     Str(<<"c1", ".">> \o get_signature(<<"c2">>))}
Requests ==
    [cookie : Cookies,
     remote_addr : {Str(a) : a \in Addresses},
     xff : {None, Str(<<"10.0.0.2">>)}]

\* no client of the redis server is at work
ClientOff ==
    /\ InitCommon
    /\ sock = "unconnected"
    /\ password = <<>>
    /\ srvFrames = {}
    /\ handlers = {}
    /\ pin = <<>> /\ pout = NotParsed
    /\ sin = NoInput /\ sout = NotParsed
clientvars ==
    <<sock, entered, waiter, netvars, password, srvFrames, handlers, pin,
      pout, sin, sout, taskvars, histvars>>

\* an app after init_app, its store, and a request that arrives
SessionInit ==
    /\ ClientOff
    /\ config \in ServingApps
    /\ iface = _get_interface(config.lib, config.conf)
    /\ store \in Stores(iface)
    /\ request \in Requests
    /\ session = NoSession /\ response = NoResponse
    /\ backendOps = <<>>
    /\ phase = "request" /\ raised = ""

Opened(s, st, ops) ==
    [k |-> "return", session |-> s, store |-> st, ops |-> ops, exc |-> ""]
Failed(e, st, ops) ==
    [k |-> "raise", session |-> NoSession, store |-> st, ops |-> ops,
     exc |-> e]

\* the address open_session takes for the request, lines 97-105
address(self, req) ==
    IF self._config["SESSION_REVERSE_PROXY"] = TRUE THEN req.xff
    ELSE req.remote_addr

\* SessionInterface.open_session, with u what _generate_sid returns
open_session(u) ==
    /\ phase = "request"
    /\ LET self == iface
           sid == request.cookie
           addr == address(self, request)
           new == Opened(ServerSideSession(EmptyDict, u, self.permanent,
                                           addr), store, <<>>)
           out ==
             IF ~truthy(sid) THEN new
             ELSE IF self.use_signer /\ ~_get_signer(config)
             THEN Opened(NoneSession, store, <<>>)
             ELSE
               LET un == IF self.use_signer THEN unsign(sid.v)
                         ELSE Unsigned(sid.v)
                   key == self.key_prefix \o un.v
                   val == interface_get(self.cls, store, key)
                   got == <<Call("get", key)>>
                   read == IF serializer(self.cls) THEN loads(val.v)
                           ELSE Unsigned(val.v)
               IN  IF un.k = "raise" THEN new
                   ELSE IF val.t = "none"
                   THEN [new EXCEPT !.ops = got]
                   ELSE IF read.k = "raise"
                   THEN [new EXCEPT !.ops = got]
                   ELSE IF /\ self._config["SESSION_PROTECTION"] = TRUE
                           /\ addr.t # "none"
                           /\ getitem(read.v, "_addr", addr) # addr
                   THEN IF has_delete(self.cls)
                        THEN [new EXCEPT
                                !.store = interface_delete(self.cls, store,
                                                           key),
                                !.ops = got \o <<Call("delete", key)>>]
                        ELSE Failed("NotImplementedError", store, got)
                   ELSE Opened(ServerSideSession(read.v, un.v, FALSE, None),
                               store, got)
       IN  /\ session' = out.session
           /\ store' = out.store
           /\ backendOps' = backendOps \o out.ops
           /\ raised' = out.exc
           /\ phase' = IF out.k = "raise" THEN "failed"
                       ELSE IF out.session.k = "None" THEN "nosession"
                       ELSE "app"
    /\ UNCHANGED <<clientvars, config, iface, request, response>>

\* the view function of the app: session['user'] = 'bob'
AppWrite ==
    /\ phase = "app"
    /\ session' = [session EXCEPT
                     !.data = setitem(session.data, "user", Str(<<"bob">>)),
                     !.modified = TRUE]
    /\ UNCHANGED <<clientvars, config, iface, store, request, response,
                   backendOps, phase, raised>>

\* the view function of the app: session.clear()
AppClear ==
    /\ phase = "app"
    /\ session' = [session EXCEPT !.data = EmptyDict, !.modified = TRUE]
    /\ UNCHANGED <<clientvars, config, iface, store, request, response,
                   backendOps, phase, raised>>

NoCookie == [op |-> "none", value |-> <<>>]
delete_cookie == [op |-> "delete", value |-> <<>>]
set_cookie(value) == [op |-> "set", value |-> value]
Saved(st, ops, cookie) ==
    [k |-> "return", store |-> st, ops |-> ops, cookie |-> cookie,
     exc |-> ""]
Unsaved(e, st, ops) ==
    [k |-> "raise", store |-> st, ops |-> ops, cookie |-> NoCookie,
     exc |-> e]

\* SessionInterface.save_session on a response that is a file or not, with
\* a backend that completes the write or not
save_session(file, completes) ==
    /\ phase = "app"
    /\ LET self == iface
           session_key == self.key_prefix \o session.sid
           val == IF serializer(self.cls) THEN Str(dumps(session.data))
                  ELSE Doc(session.data)
           written == interface_set(self.cls, store, session_key, val)
           out ==
             IF ~session.modified THEN Saved(store, <<>>, NoCookie)
             ELSE IF self._config["SESSION_STATIC_FILE"] = FALSE /\ file
             THEN Saved(store, <<>>, NoCookie)
             ELSE IF DOMAIN session.data = {}
             THEN IF has_delete(self.cls)
                  THEN Saved(interface_delete(self.cls, store, session_key),
                             <<Call("delete", session_key)>>, delete_cookie)
                  ELSE Unsaved("NotImplementedError", store, <<>>)
             ELSE IF ~completes /\ self.cls # "NullSessionInterface"
             THEN Unsaved("ConnectionError", store, <<>>)
             ELSE IF self.use_signer /\ ~_get_signer(config)
             THEN Unsaved("AttributeError", written,
                          <<Call("set", session_key)>>)
             ELSE Saved(written, <<Call("set", session_key)>>,
                        set_cookie(IF self.use_signer
                                   THEN sign(session.sid)
                                   ELSE session.sid))
       IN  /\ store' = out.store
           /\ backendOps' = backendOps \o out.ops
           /\ response' = [file |-> file, cookie |-> out.cookie]
           /\ raised' = out.exc
           /\ phase' = IF out.k = "raise" THEN "failed" ELSE "saved"
    /\ UNCHANGED <<clientvars, config, iface, request, session>>

SessionNext ==
    \/ \E u \in FreshSids : open_session(u)
    \/ AppWrite
    \/ AppClear
    \/ \E file \in BOOLEAN, completes \in BOOLEAN :
            save_session(file, completes)

SessionSpec == SessionInit /\ [][SessionNext]_vars

(***************************************************************************)
(* Properties.                                                             *)
(***************************************************************************)
\* process_response when the bytes F arrive in a single read
OneShot(F) == attempt(<<>>, F)

\* the task's call wrote a command and has left process_response
Answered(t) == pc[t] = "done" /\ cmdno[t] # 0

\* the exceptions of errors.py that report an error reply
ResponseErrors == {"ResponseError", "ResponseTypeError"}

\* C1: bytes a socket read delivers beyond the end of the frame that
\* process_response decodes are kept for the next process_response call: a
\* call that returns a value has thrown no received byte away.
C1_TrailingBytesRetained ==
    \A t \in Tasks :
        (Answered(t) /\ result[t].k = "return") => dropped[t] = <<>>

\* C2: the outcome handed to the caller of the k-th command (a returned
\* value or a raised response error) is the decoding of the frame the server
\* sent in answer to the k-th command.
C2_ReplyOrdering ==
    \A t \in Tasks :
        ( /\ Answered(t)
          /\ \/ result[t].k = "return"
             \/ result[t].exc \in ResponseErrors )
        => /\ sentFrame[t] # <<>>
           /\ result[t] = finish(op[t], OneShot(sentFrame[t]))

\* C3: at most one command awaits its reply on the connection, and no task
\* receives bytes that answer a command other than its own.
C3_OneInFlight ==
    /\ Cardinality({t \in Tasks : pc[t] \in {"recv", "parse"}}) <= 1
    /\ \A t \in Tasks : ~foreign[t]

\* C4: for a frame F that decodes to a value, however F's bytes are split
\* into socket reads: while only a proper, non-empty part of F has arrived
\* the call has not ended and, in the loop of process_response, the buffer
\* holds every byte received; once all of F has arrived the parse that
\* resumes yields what parsing F from a single read yields, and that is what
\* the call hands to its caller.
C4_ChunkingIndependence ==
    \A t \in Tasks :
        /\ (cmdno[t] # 0 /\ \E F \in ValueFrames : rx[t] \in Prefixes(F))
           => /\ pc[t] \in {"recv", "parse"}
              /\ stack[t] = <<>> => data[t] = rx[t]
        /\ (pc[t] = "parse" /\ rx[t] \in ValueFrames)
           => finish(op[t], attempt(stack[t], data[t]))
                = finish(op[t], OneShot(rx[t]))
        /\ (Answered(t) /\ rx[t] \in ValueFrames)
           => result[t] = finish(op[t], OneShot(rx[t]))

\* C4's case: an array frame whose last bytes have just arrived in a read of
\* their own, to a task that had suspended inside parse_array
C4_Witness ==
    \E t \in Tasks :
        /\ pc[t] = "parse" /\ stack[t] # <<>>
        /\ rx[t] \in ValueFrames
        /\ Len(data[t]) < Len(rx[t])

\* C5: a SETEX command reaches the socket only with a non-negative integer
\* seconds: no write is a SETEX line whose seconds is negative or no int.
C5_SetexValidatesSeconds ==
    \A i \in DOMAIN sockOut :
        \A key \in Keys, value \in Values, seconds \in Seconds :
            sockOut[i].data = send_command(SETEX, <<key, seconds, value>>)
            => (isinstance_int(seconds) /\ seconds.v >= 0)

\* C6: with a password, connect() returns only after the server acknowledged
\* AUTH with the status OK; with no password it writes no command.
C6_ConnectRequiresOk ==
    \A t \in Tasks :
        (pc[t] = "done" /\ op[t] \in {"connect", "aenter"}
            /\ result[t].k = "return")
        => IF password # <<>>
           THEN sentFrame[t] = Encode(Status(OK))
           ELSE cmdno[t] = 0 /\ sockOut = <<>>

\* C7: once close() has sent QUIT, whatever becomes of the round trip, the
\* call returns normally and the socket is released.
C7_CloseBestEffort ==
    \A t \in Tasks :
        (Answered(t) /\ op[t] = "close")
        => (sock = "closed" /\ result[t].k = "return")

\* C8: when __aexit__ has ended, the socket is released.
C8_AexitReleases ==
    \A t \in Tasks :
        (pc[t] = "done" /\ op[t] = "aexit") => sock = "closed"

\* C9: once a recv has returned no byte (the peer has closed the stream
\* before the reply was complete), process_response ends by raising: the
\* call does not go back to wait in another recv.
C9_DisconnectTerminates ==
    \A t \in Tasks : eof[t] => pc[t] # "recv"

\* the classification of an error line's text that C10 states
Classified(T) ==
    IF startswith(T, WRONGTYPE \o <<" ">>)
    THEN Raise("ResponseTypeError", SliceFrom(T, Len(WRONGTYPE) + 1))
    ELSE IF startswith(T, ERR \o <<" ">>)
    THEN Raise("ResponseError", SliceFrom(T, Len(ERR) + 1))
    ELSE Raise("ResponseError", T)

\* C10: an error line's text T raises a type-mismatch error with the rest of
\* T iff T starts with "WRONGTYPE ", else a response error with the rest of
\* T iff T starts with "ERR ", else a response error with all of T.
C10_ErrorClassification ==
    \A T \in ErrorTexts :
        (pout # NotParsed /\ pin = <<EP>> \o T \o CRLF) => pout = Classified(T)


RECURSIVE Val(_)
\* the value a reply term stands for
Val(r) ==
    CASE r.t = "status" -> Bytes(r.v)
      [] r.t = "int" -> Integer(r.v)
      [] r.t = "bulk" -> Bytes(r.v)
      [] r.t = "nil" -> None
      [] r.t = "nilarray" -> None
      [] r.t = "array" -> List([i \in 1..Len(r.v) |-> Val(r.v[i])])

\* C11: when the text between a '$' or '*' prefix and the CR-LF is no decimal
\* length (empty, or holding a non-digit), parse raises ProtocolError and no
\* other kind of error, and returns no value.
C11_MalformedLengthIsProtocolError ==
    \A c \in {"$", "*"}, l \in BadLengths :
        (pout # NotParsed /\ startswith(pin, <<c>> \o l \o CRLF))
            => (pout.k = "raise" /\ pout.exc = "ProtocolError")

\* C12: a buffer without CR-LF, the empty one included, makes parse ask for
\* more data whatever its first byte; a buffer with a CR-LF whose first byte
\* is none of + - : $ * makes parse raise ProtocolError.
C12_UnknownPrefix ==
    pout # NotParsed =>
        /\ ~HasCRLF(pin) => (pout.k = "recv" /\ pout.stack = <<>>)
        /\ (HasCRLF(pin) /\ pin[1] \notin {"+", "-", ":", "$", "*"})
            => (pout.k = "raise" /\ pout.exc = "ProtocolError")

\* C12's case: a line with an unknown first byte has been handed to parse
C12_Witness ==
    /\ pout # NotParsed
    /\ HasCRLF(pin) /\ pin[1] = "x"
    /\ pout.k = "raise"

\* C13: for a '$' frame declaring length n, parse returns None iff n = -1;
\* for n >= 0 it asks for more data iff fewer than n + 2 bytes follow the
\* length line and otherwise returns the n bytes after the length line; and
\* every payload returned that is not None has the declared length.
C13_BulkDecoding ==
    \A n \in Lengths, rest \in BulkRests :
        (pout # NotParsed /\ pin = <<"$">> \o IntStr(n) \o CRLF \o rest) =>
            /\ (pout.k = "item" /\ pout.item = None) <=> (n = -1)
            /\ n >= 0 =>
                /\ (pout.k = "recv") <=> (Len(rest) < n + 2)
                /\ Len(rest) >= n + 2 =>
                    (pout.k = "item" /\ pout.item = Bytes(SubSeq(rest, 1, n)))
            /\ (pout.k = "item" /\ pout.item # None)
                => Len(pout.item.v) = n

\* C14: for a '*' frame declaring count n followed by its elements, parse
\* returns None iff n = -1 and otherwise a list of length n whose i-th entry
\* is the decoding of the i-th element, arrays inside arrays included.
C14_ArrayDecoding ==
    /\ \A n \in Lengths : \A elems \in ElemSeqs(n) :
        (pout # NotParsed /\ pin = ArrayInput(n, elems)) =>
            /\ pout.k = "item"
            /\ (pout.item = None) <=> (n = -1)
            /\ n # -1 =>
                /\ pout.item.t = "list"
                /\ Len(pout.item.v) = n
                /\ \A i \in 1..Len(elems) : pout.item.v[i] = Val(elems[i])
    /\ \A d \in 0..MaxDepth :
        (pout # NotParsed /\ pin = Encode(Nested(d)))
            => pout = Item(Val(Nested(d)), <<>>)

\* C15: for a complete frame F that decodes to a value and any bytes T,
\* parse of F followed by T returns the value of F and exactly T.
C15_RemainderExactness ==
    \A r \in Replies, T \in Trailing :
        (pout # NotParsed /\ pin = Encode(r) \o T)
            => (pout.k = "item" /\ pout.item = Val(r) /\ pout.rest = T)

\* C15's case: a nested array followed by another frame has been parsed
C15_Witness ==
    /\ pout # NotParsed
    /\ pin = Encode(Nested(MaxDepth)) \o Encode(Int_(1))
    /\ pout.rest = Encode(Int_(1))

\* C16: parse reads no socket and keeps nothing between attempts: whenever
\* a call waits in a socket read for more data, no activation of
\* parse_array with its partial list of items is alive, so that the whole
\* frame is parsed again once more bytes have come.
C16_ParserStateless ==
    \A t \in Tasks : pc[t] = "recv" => stack[t] = <<>>

\* C19: a verb acknowledged by OK (auth, set, setex, flushall) returns True
\* iff the reply it received is the status reply with text OK, and False for
\* every other reply: a bulk string OK, an integer, null, another status.
C19_OkOnlyForStatusOk ==
    \A t \in Tasks :
        (Answered(t) /\ op[t] = "process_command_ok"
                     /\ result[t].k = "return")
            => ((result[t].v = Bool(TRUE))
                    <=> startswith(rx[t], Encode(Status(OK))))

\* C20: a status text, a signed integer or a byte string, encoded as a
\* status, integer or bulk-string frame and decoded with parse, comes back
\* as the same value with an empty remainder, for any value.
C20_ReplyRoundTrip ==
    pout # NotParsed =>
        /\ \A b \in Payloads :
            pin = Encode(Status(b)) => pout = Item(Bytes(b), <<>>)
        /\ \A n \in Numbers :
            pin = Encode(Int_(n)) => pout = Item(Integer(n), <<>>)
        /\ \A b \in Payloads :
            pin = Encode(Bulk(b)) => pout = Item(Bytes(b), <<>>)

\* C20 as it holds: the round trip of a status text holds for the texts
\* that contain no CR-LF; integers and bulk strings round-trip for any value.
C20_ReplyRoundTripNoCRLF ==
    pout # NotParsed =>
        /\ \A b \in StatusTexts :
            pin = Encode(Status(b)) => pout = Item(Bytes(b), <<>>)
        /\ \A n \in Numbers :
            pin = Encode(Int_(n)) => pout = Item(Integer(n), <<>>)
        /\ \A b \in Payloads :
            pin = Encode(Bulk(b)) => pout = Item(Bytes(b), <<>>)

\* C20's case: a bulk string that holds a CR-LF has been decoded
C20_Witness ==
    /\ pout # NotParsed
    /\ pin = Encode(Bulk(<<"a", "\r", "\n", "b">>))
    /\ pout.k = "item"

RECURSIVE Quoted(_)
\* each byte of b in order, NUL, LF, CR, backslash and double quote replaced
\* by \x00, \n, \r, \\ and \", every other byte as it is
Quoted(b) ==
    IF b = <<>> THEN <<>>
    ELSE (CASE Head(b) = "NUL" -> <<"\\", "x", "0", "0">>
            [] Head(b) = "\n" -> <<"\\", "n">>
            [] Head(b) = "\r" -> <<"\\", "r">>
            [] Head(b) = "\\" -> <<"\\", "\\">>
            [] Head(b) = "\"" -> <<"\\", "\"">>
            [] OTHER -> <<Head(b)>>) \o Quoted(Tail(b))

\* the decimal text of the integers handed to serialize
Decimal(n) ==
    CASE n = 0 -> <<"0">>
      [] n = 5 -> <<"5">>
      [] n = -1 -> <<"-", "1">>
      [] n = 42 -> <<"4", "2">>

RECURSIVE Tokens(_)
\* for each argument in order, a space and the argument serialized
Tokens(args) ==
    IF args = <<>> THEN <<>>
    ELSE <<" ">> \o serialize(Head(args)) \o Tokens(Tail(args))

\* C18: send_command hands the socket the verb as it is, then for each
\* argument in the given order a space and serialize(argument), then CR-LF.
C18_CommandEncoding ==
    (sin.k = "command" /\ sout # NotParsed)
        => sout = Sent(sin.verb \o Tokens(sin.args) \o CRLF)

\* C18's case: a verb with three arguments of three kinds was sent
C18_Witness ==
    /\ sin.k = "command" /\ sout # NotParsed
    /\ sin.verb = SETEX
    /\ sin.args = <<Str(<<"k">>), Integer(-1), Bytes(<<"\"">>)>>

\* C21: RedisConnection.close, called in any state of the connection, returns
\* without raising and leaves the socket closed, also when it was closed
\* already; and closed is final: the socket never leaves that state, and a
\* connect or a verb begun on a closed connection ends at once by raising.
C21_CloseIdempotentTerminal ==
    /\ [](\A t \in Tasks :
            (pc[t] = "done" /\ op[t] = "conn_close")
                => (result[t] = Returned(None) /\ sock = "closed"))
    /\ [][sock = "closed" => sock' = "closed"]_vars
    /\ [][\A t \in Tasks :
            (sock = "closed" /\ pc[t] = "idle" /\ pc'[t] # "idle")
                => /\ pc'[t] = "done"
                   /\ \/ op'[t] \in {"conn_close", "aexit"}
                      \/ result'[t].k = "raise"]_vars

\* C21's case: the connection was closed and a call made on it afterwards
\* has been refused
C21_Witness ==
    \E t \in Tasks :
        /\ sock = "closed" /\ pc[t] = "done"
        /\ result[t] = Raised("ClosedResourceError", <<>>)

RECURSIVE BackslashRun(_, _)
\* the number of backslashes that stand right before position i of s
BackslashRun(s, i) ==
    IF i > 1 /\ s[i - 1] = "\\" THEN 1 + BackslashRun(s, i - 1) ELSE 0

C27_ConfigHonoured ==
    (phase = "request" /\ session = NoSession
        /\ getitem(config.conf, "SESSION_TYPE", "null")
            \in {"redis", "redis+trio", "memcached", "mongodb", "null"})
        => /\ iface.permanent
                = getitem(config.conf, "SESSION_PERMANENT", TRUE)
           /\ iface.use_signer
                = getitem(config.conf, "SESSION_USE_SIGNER", FALSE)
           /\ iface.key_prefix
                = getitem(config.conf, "SESSION_KEY_PREFIX", <<"session:">>)

\* C23: save_session on a session whose modified flag is false performs no
\* backend set or delete, leaves the store as it was and neither sets nor
\* deletes the cookie; and a session open_session creates with a fresh sid
\* is unmodified, although the constructor filled in permanent and addr.
C23_UnmodifiedSessionNotSaved ==
    /\ [][(phase = "app" /\ phase' # "app" /\ ~session.modified)
            => /\ phase' = "saved"
               /\ store' = store
               /\ backendOps' = backendOps
               /\ response'.cookie = NoCookie]_vars
    /\ [][(phase = "request" /\ phase' = "app"
            /\ session'.sid \in FreshSids)
            => ~session'.modified]_vars

\* a fresh session that holds what the constructor wrote went through
\* save_session unmodified, and nothing was stored or set
C23_Witness ==
    /\ phase = "saved"
    /\ session.sid \in FreshSids
    /\ ~session.modified
    /\ DOMAIN session.data = {"_permanent", "_addr"}
    /\ ~response.file
    /\ response.cookie = NoCookie
    /\ backendOps = <<>>

\* C24: a session open_session returns either has the sid the cookie carries
\* (unsigned when use_signer is on), the backend was asked for its key and
\* the stored value deserializes to the session's data; or it has a fresh
\* sid other than the cookie's value and none of the stored data.  The
\* second is the case when the cookie is absent, its signature is bad, the
\* key is not stored or the stored value does not deserialize; on a bad
\* signature the backend is not asked.
C24_SidAdoption ==
    [][(phase = "request" /\ phase' = "app") =>
        LET s == session'
            cookie == request.cookie
            key == iface.key_prefix \o s.sid
            adopted ==
                /\ cookie = Str(IF iface.use_signer THEN sign(s.sid)
                                ELSE s.sid)
                /\ key \in DOMAIN store
                /\ backendOps' = backendOps \o <<Call("get", key)>>
                /\ store[key] = IF serializer(iface.cls)
                                THEN Str(dumps(s.data))
                                ELSE Doc(s.data)
            fresh ==
                /\ s.sid \in FreshSids
                /\ cookie # Str(s.sid)
                /\ "user" \notin DOMAIN s.data
            absent == ~truthy(cookie)
            signed == {v \in CookieSids : cookie.v = sign(v)}
            badsig == ~absent /\ iface.use_signer /\ signed = {}
            claimed == IF iface.use_signer
                       THEN {iface.key_prefix \o v : v \in signed}
                       ELSE {iface.key_prefix \o cookie.v}
            missing == ~absent /\ claimed \cap DOMAIN store = {}
            unreadable ==
                /\ ~absent /\ ~missing /\ serializer(iface.cls)
                /\ \A k \in claimed \cap DOMAIN store :
                     \A d \in SessionDicts :
                        WellFormed(d) => store[k] # Str(dumps(d))
        IN  /\ adopted \/ fresh
            /\ (absent \/ badsig \/ missing \/ unreadable) => fresh
            /\ badsig => backendOps' = backendOps]_vars

\* a signed cookie's sid was adopted with the data stored for it
C24_Witness ==
    /\ phase = "app"
    /\ iface.use_signer
    /\ request.cookie = Str(sign(<<"c1">>))
    /\ session.sid = <<"c1">>
    /\ ~session.modified
    /\ "user" \in DOMAIN session.data
    /\ backendOps = <<Call("get", iface.key_prefix \o <<"c1">>)>>

\* C25: with SESSION_PROTECTION on and the address of the request known, a
\* cookie whose stored data records another '_addr' makes open_session
\* delete the stored key and return a new session with a fresh sid and none
\* of the stored data; a session that holds stored data was recorded for the
\* address of the request or for none.
C25_SessionProtection ==
    [][(phase = "request" /\ phase' # "request"
        /\ iface._config["SESSION_PROTECTION"] = TRUE
        /\ address(iface, request).t # "none") =>
        LET addr == address(iface, request)
            cookie == request.cookie
            signed == {v \in CookieSids : cookie.v = sign(v)}
            claimed == IF iface.use_signer
                       THEN {iface.key_prefix \o v : v \in signed}
                       ELSE {iface.key_prefix \o cookie.v}
            recorded(k) ==
                {d \in SessionDicts :
                    /\ WellFormed(d)
                    /\ store[k] = IF serializer(iface.cls)
                                  THEN Str(dumps(d)) ELSE Doc(d)}
            foreign_keys ==
                {k \in claimed \cap DOMAIN store :
                    \E d \in recorded(k) :
                        "_addr" \in DOMAIN d /\ d["_addr"] # addr}
        IN  /\ (/\ truthy(cookie)
                /\ iface.use_signer => _get_signer(config)
                /\ foreign_keys # {})
                => /\ phase' = "app"
                   /\ \A k \in foreign_keys :
                        /\ k \notin DOMAIN store'
                        /\ backendOps'
                            = backendOps \o <<Call("get", k),
                                              Call("delete", k)>>
                   /\ session'.sid \in FreshSids
                   /\ "user" \notin DOMAIN session'.data
            /\ (phase' = "app" /\ "user" \in DOMAIN session'.data)
                => getitem(session'.data, "_addr", addr) = addr]_vars

\* C26: save_session on a modified session and a response that is not a
\* file does one of two things.  An empty session: it deletes the session
\* key from the backend and deletes the cookie, and sets nothing.  A session
\* that is not empty: it writes the serialized session under key_prefix +
\* sid and, the write completed, sets the cookie to that sid, signed when
\* use_signer is on.  A cookie is set only for a sid whose data this call
\* wrote.
C26_ModifiedSessionSaved ==
    [][(phase = "app" /\ phase' # "app" /\ session.modified
        /\ ~response'.file) =>
        LET key == iface.key_prefix \o session.sid
            val == IF serializer(iface.cls) THEN Str(dumps(session.data))
                   ELSE Doc(session.data)
            cookie == response'.cookie
        IN  /\ DOMAIN session.data = {}
                => /\ phase' = "saved"
                   /\ backendOps' = backendOps \o <<Call("delete", key)>>
                   /\ key \notin DOMAIN store'
                   /\ cookie = delete_cookie
            /\ DOMAIN session.data # {}
                => \/ raised' = "ConnectionError" /\ cookie = NoCookie
                   \/ /\ phase' = "saved"
                      /\ backendOps' = backendOps \o <<Call("set", key)>>
                      /\ cookie = set_cookie(IF iface.use_signer
                                             THEN sign(session.sid)
                                             ELSE session.sid)
            /\ cookie.op = "set"
                => key \in DOMAIN store' /\ store'[key] = val]_vars

=============================================================================
